---- MODULE Spec2Model ----
(***************************************************************************)
(* pygmsh/helpers.py: orient_lines (the edge-loop orienter) and the mesh   *)
(* clean-up at the end of generate_mesh (cell-type filter, vertex pruner,  *)
(* z-dimension reducer).                                                   *)
(*                                                                         *)
(* Arrays keep the source's 0-based indexing: a numpy array of length n is *)
(* a function with domain 0..n-1.                                          *)
(***************************************************************************)
EXTENDS Integers, Sequences, FiniteSets, TLC

VARIABLES
    \* ---- orient_lines ----
    lines,            \* the argument: lines[k] is a line object
    point_pair_ids,   \* working (tail, head) id pairs, one row per position
    order,            \* indices of reordering
    oriented,         \* position-indexed orientation flags
    j,                \* the loop variable of `for j in range(1, N)`
    pc,               \* "build" | "loop" | "done" | "error" | "idle"
    result,           \* the returned list (set when pc = "done")
    round,            \* 1: first call, 2: call on the first call's result
    \* ---- generate_mesh post-processing ----
    mesh,             \* the meshio.Mesh value being processed
    opts,             \* the three keyword flags
    stage,            \* "filter" | "prune" | "reduce" | "done" | "again" | "error" | "idle"
    prev              \* the mesh as it entered the stage that ran last

orientVars == <<lines, point_pair_ids, order, oriented, j, pc, result, round>>
meshVars == <<mesh, opts, stage, prev>>
vars == <<lines, point_pair_ids, order, oriented, j, pc, result, round,
          mesh, opts, stage, prev>>

\* ------------------------------------------------------------------------
\* Bounds
\* ------------------------------------------------------------------------
\* Longest list of lines handed to orient_lines.
MaxLines == 4

\* Number of points of the mesh read back from Gmsh.
NumPoints == 3

\* Most cell blocks in a mesh.
MaxBlocks == 2

\* Most cells in a mesh whose cells are enumerated freely.
MaxCells == 2

\* ------------------------------------------------------------------------
\* Generic helpers
\* ------------------------------------------------------------------------
Min(S) == CHOOSE x \in S : \A y \in S : x <= y
Max(S) == CHOOSE x \in S : \A y \in S : x >= y

\* A (tail, head) row of point_pair_ids: column 0 is the tail, column 1 the head.
Pair(a, b) == [c \in 0..1 |-> IF c = 0 THEN a ELSE b]

\* numpy.flip(row, axis=1) on one row.
FlipRow(r) == Pair(r[1], r[0])

\* Length of a 0-based array.
Len0(f) == Cardinality(DOMAIN f)

\* The empty 0-based array.
Empty0 == [k \in {} |-> 0]

\* ------------------------------------------------------------------------
\* Line objects.  A line carries the index of the geometric segment it was
\* created for, a sign, and its two points in stored order.
\* ------------------------------------------------------------------------
Line(s, a, b) == [seg |-> s, sign |-> 1, points |-> Pair(a, b)]

\* -line: the same segment traversed from its stored head to its stored tail.
Neg(l) == [seg |-> l.seg, sign |-> 0 - l.sign, points |-> FlipRow(l.points)]

\* ------------------------------------------------------------------------
\* orient_lines, line by line
\* ------------------------------------------------------------------------
\* point_pair_ids = numpy.array([[line.points[0].id, line.points[1].id] ...])
PointPairIds(ls) == [k \in DOMAIN ls |-> Pair(ls[k].points[0], ls[k].points[1])]

\* order = numpy.arange(len(point_pair_ids))
Arange(n) == [k \in 0..(n - 1) |-> k]

\* oriented = numpy.array([True] * len(point_pair_ids))
AllTrue(n) == [k \in 0..(n - 1) |-> TRUE]

\* numpy.where(point_pair_ids[jj:, col] == out)[0] + jj, as the set of hits;
\* wh[0] is its least element.
Where(ppi, jj, col, out) == {k \in DOMAIN ppi : k >= jj /\ ppi[k][col] = out}

\* Variant: only row jj is flipped.
FlipFrom_OnlyFirst(ppi, jj) == [k \in DOMAIN ppi |-> IF k = jj THEN FlipRow(ppi[k]) ELSE ppi[k]]

\* point_pair_ids[jj:] = numpy.flip(point_pair_ids[jj:], axis=1)
FlipFrom(ppi, jj) == [k \in DOMAIN ppi |-> IF k >= jj THEN FlipRow(ppi[k]) ELSE ppi[k]]

\* Variant: only flag jj is toggled.
XorFrom_OnlyFirst(ori, jj) == [k \in DOMAIN ori |-> IF k = jj THEN ~ori[k] ELSE ori[k]]

\* oriented[jj:] ^= True
XorFrom(ori, jj) == [k \in DOMAIN ori |-> IF k >= jj THEN ~ori[k] ELSE ori[k]]

\* Variant: a[p] = a[q]; a[q] = a[p] (the old a[p] is lost).
Swap_Sequential(a, p, q) == [k \in DOMAIN a |-> IF k = p THEN a[q] ELSE a[k]]

\* a[[p, q]] = a[[q, p]]
Swap(a, p, q) == [k \in DOMAIN a |-> IF k = p THEN a[q] ELSE IF k = q THEN a[p] ELSE a[k]]

\* Variant: the reordering by `order` is left out.
Reconstruct_NoReorder(ls, ord, ori) ==
    [p \in DOMAIN ord |-> IF ori[p] THEN ls[p] ELSE Neg(ls[p])]

\* lines = [lines[o] for o in order]
\* lines = [lines[p] if oriented[p] else -lines[p] for p in range(len(oriented))]
Reconstruct(ls, ord, ori) ==
    [p \in DOMAIN ord |-> IF ori[p] THEN ls[ord[p]] ELSE Neg(ls[ord[p]])]

\* ------------------------------------------------------------------------
\* Inputs of orient_lines.  The caller assembles the list one line at a
\* time.  orient_lines only compares point ids for equality, so a new line
\* uses ids already present or the next unused ones.  The two squares of
\* the documentation are given literally.
\* ------------------------------------------------------------------------
LinesOf(s) == [k \in 0..((Len(s) \div 2) - 1) |-> Line(k, s[2 * k + 1], s[2 * k + 2])]

SquareForward == LinesOf(<<2, 3, 0, 1, 3, 0, 1, 2>>)
SquareReversed == LinesOf(<<1, 0, 2, 1, 3, 2, 0, 3>>)

\* The smallest point id that no line of ls uses.
FreshId(ls) ==
    LET used == {ls[k].points[c] : k \in DOMAIN ls, c \in 0..1}
    IN  IF used = {} THEN 0 ELSE Max(used) + 1

\* lines.append(Line(a, b))
AppendLine(ls, a, b) ==
    [k \in 0..Len0(ls) |-> IF k < Len0(ls) THEN ls[k] ELSE Line(k, a, b)]

\* ------------------------------------------------------------------------
\* The state machine of orient_lines
\* ------------------------------------------------------------------------
\* Entry of orient_lines(ls): lines 35-42.
Enter(ls) ==
    /\ lines' = ls
    /\ point_pair_ids' = PointPairIds(ls)
    /\ order' = Arange(Len0(ls))
    /\ oriented' = AllTrue(Len0(ls))
    /\ j' = 1
    /\ pc' = "loop"
    /\ result' = Empty0

\* The caller adds one more line to the list it will pass.
AddLine ==
    /\ pc = "build"
    /\ Len0(lines) < MaxLines
    /\ \E a \in 0..FreshId(lines) :
          \E b \in 0..(IF a = FreshId(lines) THEN a + 1 ELSE FreshId(lines)) :
             lines' = AppendLine(lines, a, b)
    /\ UNCHANGED <<point_pair_ids, order, oriented, j, pc, result, round>>
    /\ UNCHANGED meshVars

\* The call orient_lines(lines).
Call ==
    /\ pc = "build"
    /\ Len0(lines) >= 1
    /\ Enter(lines)
    /\ UNCHANGED round
    /\ UNCHANGED meshVars

\* One iteration of the for loop, lines 44-58.
Iterate ==
    /\ pc = "loop"
    /\ j < Len0(point_pair_ids)
    /\ LET out == point_pair_ids[j - 1][1]
           wh1 == Where(point_pair_ids, j, 0, out)
           flip == wh1 = {}
           wh == IF flip THEN Where(point_pair_ids, j, 1, out) ELSE wh1
           ppi1 == IF flip THEN FlipFrom(point_pair_ids, j) ELSE point_pair_ids
           ori1 == IF flip THEN XorFrom(oriented, j) ELSE oriented
       IN  IF wh = {}
           THEN \* wh[0] raises IndexError; the suffix was already flipped
                /\ point_pair_ids' = ppi1
                /\ oriented' = ori1
                /\ pc' = "error"
                /\ UNCHANGED <<order, j>>
           ELSE /\ point_pair_ids' = Swap(ppi1, j, Min(wh))
                /\ order' = Swap(order, j, Min(wh))
                /\ oriented' = ori1
                /\ j' = j + 1
                /\ pc' = "loop"
    /\ UNCHANGED <<lines, result, round>>
    /\ UNCHANGED meshVars

\* Loop exit and lines 61-64.
Return ==
    /\ pc = "loop"
    /\ j >= Len0(point_pair_ids)
    /\ result' = Reconstruct(lines, order, oriented)
    /\ pc' = "done"
    /\ UNCHANGED <<lines, point_pair_ids, order, oriented, j, round>>
    /\ UNCHANGED meshVars

\* The caller hands the returned list to orient_lines again.
Reapply ==
    /\ pc = "done"
    /\ round = 1
    /\ round' = 2
    /\ Enter(result)
    /\ UNCHANGED meshVars

MeshIdle ==
    /\ mesh = <<>>
    /\ opts = <<>>
    /\ stage = "idle"
    /\ prev = <<>>

Init ==
    /\ lines \in {Empty0, SquareForward, SquareReversed}
    /\ point_pair_ids = Empty0
    /\ order = Empty0
    /\ oriented = Empty0
    /\ j = 0
    /\ pc = "build"
    /\ result = Empty0
    /\ round = 1
    /\ MeshIdle

Next ==
    \/ AddLine
    \/ Call
    \/ Iterate
    \/ Return
    \/ Reapply

Spec == Init /\ [][Next]_vars

\* ------------------------------------------------------------------------
\* generate_mesh: the mesh value and the numpy operations used on it.
\*
\*   mesh.points      [ncols, rows]   rows[i] is the coordinate row of point i
\*   mesh.cells       array of CellBlock [type, data], data = [ncols, rows]
\*   mesh.point_data  name -> array with one entry per point
\*   mesh.cell_data   name -> array with one entry per cell block
\*
\* Coordinates are integers in units of 1e-14.
\* ------------------------------------------------------------------------
\* The elements of the 0-based array a at the indices in K, in ascending
\* index order (a list comprehension with a condition; fancy indexing with
\* a sorted index array).
Pick(a, K) ==
    [i \in 0..(Cardinality(K) - 1) |->
        a[CHOOSE k \in K : Cardinality({q \in K : q < k}) = i]]

\* A 0-based array from a sequence.
ToArray(sq) == [i \in 0..(Len(sq) - 1) |-> sq[i + 1]]

\* cells_2d = {"triangle", "quad"}
cells_2d == {"triangle", "quad"}

\* cells_3d = {"tetra", "hexahedron", "wedge", "pyramid", "penta_prism", "hexa_prism"}
cells_3d == {"tetra", "hexahedron", "wedge", "pyramid", "penta_prism", "hexa_prism"}

\* Lines 189-194.
keep_types(cells) ==
    IF \E k \in DOMAIN cells : cells[k].type \in cells_3d THEN cells_3d
    ELSE IF \E k \in DOMAIN cells : cells[k].type \in cells_2d THEN cells_2d
    ELSE {cells[k].type : k \in DOMAIN cells}

\* [d for d, c in zip(val, cells) if c[0] in keep]
ZipKeep(val, cells, keep) ==
    Pick(val, {k \in (DOMAIN val) \cap (DOMAIN cells) : cells[k].type \in keep})

\* Variant: the cells are filtered first and the data is zipped with the
\* filtered cells.
CellTypeFilter_CellsFirst(m) ==
    LET keep == keep_types(m.cells)
        kept == Pick(m.cells, {k \in DOMAIN m.cells : m.cells[k].type \in keep})
    IN  [m EXCEPT !.cell_data = [name \in DOMAIN m.cell_data |->
                                    ZipKeep(m.cell_data[name], kept, keep)],
                  !.cells = kept]

\* Lines 178-200, the body of `if remove_lower_dim_cells:`.
CellTypeFilter(m) ==
    LET keep == keep_types(m.cells)
    IN  [m EXCEPT !.cell_data = [name \in DOMAIN m.cell_data |->
                                    ZipKeep(m.cell_data[name], m.cells, keep)],
                  !.cells = Pick(m.cells, {k \in DOMAIN m.cells : m.cells[k].type \in keep})]

\* numpy.concatenate(c) for one block's 2-d array: its rows, one after another.
RECURSIVE ConcatRows(_, _)
ConcatRows(data, r) ==
    IF r >= Len0(data.rows) THEN <<>>
    ELSE [c \in 1..data.ncols |-> data.rows[r][c - 1]] \o ConcatRows(data, r + 1)

\* numpy.concatenate([numpy.concatenate(c) for _, c in mesh.cells])
RECURSIVE ConcatBlocks(_, _)
ConcatBlocks(cells, b) ==
    IF b >= Len0(cells) THEN <<>>
    ELSE ConcatRows(cells[b].data, 0) \o ConcatBlocks(cells, b + 1)

ncells(cells) == ToArray(ConcatBlocks(cells, 0))

\* numpy.concatenate raises ValueError when handed no array at all: a mesh
\* without cell blocks, or a block without cells.
ConcatenateRaises(cells) ==
    \/ Len0(cells) = 0
    \/ \E b \in DOMAIN cells : Len0(cells[b].data.rows) = 0

\* Variant: the distinct ids in order of first appearance.
uvertices_FirstSeen(nc) ==
    Pick(nc, {i \in DOMAIN nc : \A q \in DOMAIN nc : q < i => nc[q] # nc[i]})

\* uvertices of numpy.unique(ncells, return_inverse=True): the distinct
\* values, ascending.
uvertices(nc) ==
    LET vals == {nc[i] : i \in DOMAIN nc}
    IN  [i \in 0..(Cardinality(vals) - 1) |->
            CHOOSE v \in vals : Cardinality({u \in vals : u < v}) = i]

\* uidx of numpy.unique(ncells, return_inverse=True): uvertices[uidx] == ncells.
uidx(nc) ==
    LET uv == uvertices(nc)
    IN  [i \in DOMAIN nc |-> CHOOSE q \in DOMAIN uv : uv[q] = nc[i]]

\* uidx[k : k + n].reshape(cellblock.shape)
Reshape(ui, k, data) ==
    [ncols |-> data.ncols,
     rows |-> [r \in DOMAIN data.rows |->
                  [c \in 0..(data.ncols - 1) |-> ui[k + r * data.ncols + c]]]]

\* Variant: k is not advanced from block to block.
NextOffset_Stuck(k, data) == k

\* k += n, with n = numpy.prod(cellblock.shape)
NextOffset(k, data) == k + Len0(data.rows) * data.ncols

\* Lines 207-215: the loop over the cell blocks.
RECURSIVE RewriteBlocks(_, _, _, _)
RewriteBlocks(cells, ui, b, k) ==
    IF b >= Len0(cells) THEN <<>>
    ELSE <<[type |-> cells[b].type, data |-> Reshape(ui, k, cells[b].data)]>>
         \o RewriteBlocks(cells, ui, b + 1, NextOffset(k, cells[b].data))

\* Lines 202-219, the body of `if prune_vertices:`.
PruneVertices(m) ==
    IF ConcatenateRaises(m.cells) THEN [ok |-> FALSE, mesh |-> m]
    ELSE LET nc == ncells(m.cells)
             uv == uvertices(nc)
             ui == uidx(nc)
         IN  [ok |-> TRUE,
              mesh |-> [m EXCEPT
                  !.cells = ToArray(RewriteBlocks(m.cells, ui, 0, 0)),
                  !.points = [ncols |-> m.points.ncols,
                              rows |-> [i \in DOMAIN uv |-> m.points.rows[uv[i]]]],
                  !.point_data = [key \in DOMAIN m.point_data |->
                                     [i \in DOMAIN uv |-> m.point_data[key][uv[i]]]]]]

\* 1.0e-13, in units of 1e-14.
ZTol == 10

Abs(x) == IF x < 0 THEN 0 - x ELSE x

\* Variant: the comparison admits the threshold itself.
AllZBelow_Inclusive(points) ==
    \A i \in DOMAIN points.rows : Abs(points.rows[i][2]) <= ZTol

\* numpy.all(numpy.abs(mesh.points[:, 2]) < 1.0e-13)
AllZBelow(points) ==
    \A i \in DOMAIN points.rows : Abs(points.rows[i][2]) < ZTol

\* Lines 231-236.
PruneZ0(m, flag) ==
    IF flag /\ m.points.ncols = 3 /\ AllZBelow(m.points)
    THEN [m EXCEPT !.points = [ncols |-> 2,
                               rows |-> [i \in DOMAIN m.points.rows |->
                                            [c \in 0..1 |-> m.points.rows[i][c]]]]]
    ELSE m

\* ------------------------------------------------------------------------
\* Meshes handed over by meshio.read (line 176).
\* ------------------------------------------------------------------------
PointIds == 0..(NumPoints - 1)

\* Number of vertices of one cell of each type.
NodesPerCell(t) ==
    CASE t = "vertex" -> 1
      [] t = "line" -> 2
      [] t = "triangle" -> 3
      [] t = "quad" -> 4
      [] t = "tetra" -> 4
      [] t = "pyramid" -> 5
      [] t = "wedge" -> 6
      [] t = "hexahedron" -> 8
      [] t = "penta_prism" -> 10
      [] t = "hexa_prism" -> 12

CellTypes == {"vertex", "line"} \cup cells_2d \cup cells_3d

\* Values of a z coordinate: 0, 0.9e-13, 1e-13 and 1e-12, of either sign.
ZVals == {0, 9, 0 - 9, 10, 0 - 10, 100}

\* Points with 3 components; point i is (i, 0, z[i]).
Points3(z) ==
    [ncols |-> 3,
     rows |-> [i \in PointIds |-> [c \in 0..2 |-> IF c = 0 THEN i ELSE IF c = 1 THEN 0 ELSE z[i]]]]

\* Points with 2 components; point i is (i, 0).
Points2 ==
    [ncols |-> 2,
     rows |-> [i \in PointIds |-> [c \in 0..1 |-> IF c = 0 THEN i ELSE 0]]]

FlatZ == [i \in PointIds |-> 0]

\* A mesh with the given points and cells.  Every point carries one data
\* value and every cell block one array per cell-data field; both are named
\* after the point or block they belong to.
MeshOf(points, cells) ==
    [points |-> points,
     cells |-> cells,
     point_data |-> [key \in {"gmsh:dim_tags"} |-> [i \in PointIds |-> <<key, i>>]],
     cell_data |-> [name \in {"gmsh:physical", "gmsh:geometrical"} |->
                       [k \in DOMAIN cells |-> <<name, k>>]]]

\* One cell of type t on consecutive point ids starting at s.
RunCell(t, s) == [c \in 0..(NodesPerCell(t) - 1) |-> (s + c) % NumPoints]

\* Blocks of the types ts, one cell each.
MeshByType(ts) ==
    MeshOf(Points3(FlatZ),
           [k \in DOMAIN ts |->
               [type |-> ts[k],
                data |-> [ncols |-> NodesPerCell(ts[k]), rows |-> [r \in 0..0 |-> RunCell(ts[k], k)]]]])

LineCells == {Pair(a, b) : a, b \in PointIds} \ {Pair(a, a) : a \in PointIds}

\* The sum of the entries of a 0-based array of numbers.
RECURSIVE SumUpTo(_, _)
SumUpTo(f, n) == IF n = 0 THEN 0 ELSE f[n - 1] + SumUpTo(f, n - 1)

\* Blocks of lines: block k holds cnt[k] of the cells cs, in order.
MeshByCells(cnt, cs) ==
    MeshOf(Points3(FlatZ),
           [k \in DOMAIN cnt |->
               [type |-> "line",
                data |-> [ncols |-> 2,
                          rows |-> [r \in 0..(cnt[k] - 1) |-> cs[SumUpTo(cnt, k) + r]]]]])

\* One block of lines: (0, 1) alone, or the chain (0, 1) ... (NumPoints-2,
\* NumPoints-1) when chain holds.
ChainCells(chain) ==
    [k \in 0..0 |->
        [type |-> "line",
         data |-> [ncols |-> 2,
                   rows |-> [r \in 0..(IF chain THEN NumPoints - 2 ELSE 0) |-> Pair(r, r + 1)]]]]

Flags == [remove_lower_dim_cells : BOOLEAN, prune_vertices : BOOLEAN, prune_z_0 : BOOLEAN]

\* ------------------------------------------------------------------------
\* The post-processing of generate_mesh as a state machine
\* ------------------------------------------------------------------------
\* Lines 178-200.
StageFilter ==
    /\ stage = "filter"
    /\ prev' = mesh
    /\ mesh' = IF opts.remove_lower_dim_cells THEN CellTypeFilter(mesh) ELSE mesh
    /\ stage' = "prune"
    /\ UNCHANGED opts
    /\ UNCHANGED orientVars

\* Lines 202-219.
StagePrune ==
    /\ stage = "prune"
    /\ prev' = mesh
    /\ IF opts.prune_vertices
       THEN /\ mesh' = PruneVertices(mesh).mesh
            /\ stage' = IF PruneVertices(mesh).ok THEN "reduce" ELSE "error"
       ELSE /\ mesh' = mesh
            /\ stage' = "reduce"
    /\ UNCHANGED opts
    /\ UNCHANGED orientVars

\* Lines 231-238.
StageReduce ==
    /\ stage = "reduce"
    /\ prev' = mesh
    /\ mesh' = PruneZ0(mesh, opts.prune_z_0)
    /\ stage' = "done"
    /\ UNCHANGED opts
    /\ UNCHANGED orientVars

\* Lines 202-219 once more, on the mesh they produced.
PruneAgain ==
    /\ stage = "reduce"
    /\ opts.prune_vertices
    /\ prev' = mesh
    /\ mesh' = PruneVertices(mesh).mesh
    /\ stage' = IF PruneVertices(mesh).ok THEN "again" ELSE "error"
    /\ UNCHANGED opts
    /\ UNCHANGED orientVars

OrientIdle ==
    /\ lines = Empty0
    /\ point_pair_ids = Empty0
    /\ order = Empty0
    /\ oriented = Empty0
    /\ j = 0
    /\ pc = "idle"
    /\ result = Empty0
    /\ round = 0

\* The mesh read back and the keyword flags of the call: blocks of every
\* type with one cell each; up to MaxBlocks blocks of lines holding up to
\* MaxCells cells in all, each on any two distinct points; one block of
\* lines under points of every z, or under 2-component points.
InitMesh ==
    /\ \/ /\ \E n \in 0..MaxBlocks : \E ts \in [0..(n - 1) -> CellTypes] :
                mesh = MeshByType(ts)
          /\ opts \in Flags
       \/ /\ \E n \in 0..MaxBlocks : \E cnt \in [0..(n - 1) -> 0..MaxCells] :
                /\ SumUpTo(cnt, n) <= MaxCells
                /\ \E cs \in [0..(SumUpTo(cnt, n) - 1) -> LineCells] :
                      mesh = MeshByCells(cnt, cs)
          /\ opts \in {f \in Flags : ~f.remove_lower_dim_cells}
       \/ /\ \E chain \in BOOLEAN :
                \/ \E z \in [PointIds -> ZVals] : mesh = MeshOf(Points3(z), ChainCells(chain))
                \/ mesh = MeshOf(Points2, ChainCells(chain))
          /\ opts \in Flags
    /\ stage = "filter"
    /\ prev = mesh
    /\ OrientIdle

NextMesh ==
    \/ StageFilter
    \/ StagePrune
    \/ StageReduce
    \/ PruneAgain

SpecMesh == InitMesh /\ [][NextMesh]_vars

\* ------------------------------------------------------------------------
\* Vocabulary of the properties of orient_lines
\* ------------------------------------------------------------------------
NumLines == Len0(lines)

PointIdsOf(ls) == {ls[k].points[c] : k \in DOMAIN ls, c \in 0..1}

\* Number of segment endpoints of ls that are the point v.
Degree(ls, v) ==
    Cardinality({<<k, c>> \in (DOMAIN ls) \X (0..1) : ls[k].points[c] = v})

RECURSIVE ReachFrom(_, _)
ReachFrom(ls, S) ==
    LET T == S \cup {ls[k].points[c] : k \in {q \in DOMAIN ls : \E d \in 0..1 : ls[q].points[d] \in S},
                                       c \in 0..1}
    IN  IF T = S THEN S ELSE ReachFrom(ls, T)

\* The segments form exactly one simple cycle of at least three segments.
IsSimpleCycle(ls) ==
    /\ Len0(ls) >= 3
    /\ \A v \in PointIdsOf(ls) : Degree(ls, v) = 2
    /\ ReachFrom(ls, {ls[0].points[0]}) = PointIdsOf(ls)

\* Some point has degree 1 or 3.
HasDegree1Or3(ls) == \E v \in PointIdsOf(ls) : Degree(ls, v) \in {1, 3}

\* All segments are stored in the same traversal direction of the cycle.
SameDirection(ls) ==
    /\ IsSimpleCycle(ls)
    /\ \A v \in PointIdsOf(ls) : \E k \in DOMAIN ls : ls[k].points[0] = v

\* The input line that the returned line at position p was made from.
StoredOf(p) == lines[CHOOSE k \in DOMAIN lines : lines[k].seg = result[p].seg]

\* +1 when the returned line is the input line itself, -1 when it is its negation.
SignOf(p) == IF result[p].sign = StoredOf(p).sign THEN 1 ELSE 0 - 1

EffHead(p) == IF SignOf(p) = 1 THEN StoredOf(p).points[1] ELSE StoredOf(p).points[0]
EffTail(p) == IF SignOf(p) = 1 THEN StoredOf(p).points[0] ELSE StoredOf(p).points[1]

Closed ==
    \A p \in DOMAIN result : EffHead(p) = EffTail((p + 1) % Len0(result))

UndirectedEdge(l) == {l.points[0], l.points[1]}

SameEdgeMultiset ==
    /\ Len0(result) = NumLines
    /\ \A e \in {UndirectedEdge(lines[k]) : k \in DOMAIN lines} :
          Cardinality({p \in DOMAIN result : UndirectedEdge(result[p]) = e})
            = Cardinality({k \in DOMAIN lines : UndirectedEdge(lines[k]) = e})
    /\ \A k \in DOMAIN lines : \E p \in DOMAIN result : result[p].seg = lines[k].seg

\* C1: loop closure.  For a simple cycle of N >= 3 segments, in any
\* permutation and with any subset stored reversed, orient_lines returns N
\* segments whose effective head equals the effective tail of the next one,
\* cyclically, and the multiset of undirected edges is that of the input.
C1_LoopClosure ==
    (pc = "done" /\ IsSimpleCycle(lines)) => (Closed /\ SameEdgeMultiset)

C1_Witness ==
    /\ pc = "done"
    /\ round = 1
    /\ IsSimpleCycle(lines)
    /\ NumLines = 4
    /\ order # Arange(NumLines)
    /\ \E p, q \in DOMAIN oriented : oriented[p] /\ ~oriented[q]
    /\ ~SameDirection(lines)

\* C2: malformed input.  When some point id has degree 1 or 3, orient_lines
\* ends in the error outcome and never returns a list of segments.
C2_MalformedRaises ==
    (round = 1 /\ HasDegree1Or3(lines)) => pc # "done"

Traversal == [p \in DOMAIN result |-> Pair(EffTail(p), EffHead(p))]

\* C8: a cycle whose segments are all stored in the same traversal
\* direction, in any permutation, is returned with every sign +1; the
\* forward square comes back as the rotation 2->3->0->1->2 of 0->1->2->3->0
\* and the reversed square with one sign throughout.
C8_ConsistentDirection ==
    /\ (pc = "done" /\ round = 1 /\ SameDirection(lines)) =>
          (Closed /\ \A p \in DOMAIN result : SignOf(p) = 1)
    /\ (pc = "done" /\ round = 1 /\ lines = SquareForward) =>
          /\ Traversal = [p \in 0..3 |-> Pair((p + 2) % 4, (p + 3) % 4)]
          /\ \A p \in DOMAIN result : SignOf(p) = 1
    /\ (pc = "done" /\ round = 1 /\ lines = SquareReversed) =>
          \A p, q \in DOMAIN result : SignOf(p) = SignOf(q)

C8_Witness ==
    /\ pc = "done"
    /\ round = 1
    /\ SameDirection(lines)
    /\ NumLines = 4
    /\ order # Arange(NumLines)
    /\ lines \notin {SquareForward, SquareReversed}

C8_WitnessSquares ==
    pc = "done" /\ round = 1 /\ lines = SquareReversed

\* C10: loop invariant.  At the start of every iteration j (1 <= j < N),
\* for any input: (i) order is a permutation of 0..N-1 and position 0 holds
\* input segment 0 with flag True; (ii) the flags of the not-yet-placed
\* positions j..N-1 are all equal; (iii) every working pair is the stored
\* pair of input segment order[p] when oriented[p] holds and its reversal
\* otherwise.
C10_LoopInvariant ==
    (pc = "loop" /\ j < NumLines) =>
        /\ DOMAIN order = 0..(NumLines - 1)
        /\ {order[p] : p \in DOMAIN order} = 0..(NumLines - 1)
        /\ order[0] = 0
        /\ oriented[0]
        /\ \A p, q \in j..(NumLines - 1) : oriented[p] = oriented[q]
        /\ \A p \in DOMAIN point_pair_ids :
              point_pair_ids[p] = IF oriented[p] THEN lines[order[p]].points
                                  ELSE FlipRow(lines[order[p]].points)

C10_Witness ==
    /\ pc = "loop"
    /\ j = 3
    /\ NumLines = 4
    /\ ~IsSimpleCycle(lines)
    /\ order # Arange(NumLines)
    /\ ~oriented[1]
    /\ oriented[2]
    /\ oriented[3]

\* ------------------------------------------------------------------------
\* Vocabulary of the properties of the mesh post-processing
\* ------------------------------------------------------------------------
Tier3 == {"tetra", "hexahedron", "wedge", "pyramid", "penta_prism", "hexa_prism"}
Tier2 == {"triangle", "quad"}

\* Positions of the blocks of cells that the cell-type filter is to retain.
Survivors(cells) ==
    IF \E k \in DOMAIN cells : cells[k].type \in Tier3
    THEN {k \in DOMAIN cells : cells[k].type \in Tier3}
    ELSE IF \E k \in DOMAIN cells : cells[k].type \in Tier2
    THEN {k \in DOMAIN cells : cells[k].type \in Tier2}
    ELSE DOMAIN cells

\* Positions (block, row, column) of the cell vertices of cells.
Slots(cells) ==
    UNION {{<<b, r, c>> : r \in DOMAIN cells[b].data.rows, c \in 0..(cells[b].data.ncols - 1)} :
              b \in DOMAIN cells}

At(cells, t) == cells[t[1]].data.rows[t[2]][t[3]]

\* Old point ids referenced by some cell.
Referenced(cells) == {At(cells, t) : t \in Slots(cells)}

\* Number of referenced old ids strictly smaller than v.
Rank(cells, v) == Cardinality({u \in Referenced(cells) : u < v})

C4_PrunerIsRankCompaction ==
    (stage = "reduce" /\ opts.prune_vertices) =>
        /\ DOMAIN mesh.cells = DOMAIN prev.cells
        /\ \A b \in DOMAIN mesh.cells :
              /\ mesh.cells[b].type = prev.cells[b].type
              /\ mesh.cells[b].data.ncols = prev.cells[b].data.ncols
              /\ DOMAIN mesh.cells[b].data.rows = DOMAIN prev.cells[b].data.rows
        /\ Slots(mesh.cells) = Slots(prev.cells)
        /\ \A t \in Slots(prev.cells) :
              /\ At(mesh.cells, t) = Rank(prev.cells, At(prev.cells, t))
              /\ mesh.points.rows[At(mesh.cells, t)] = prev.points.rows[At(prev.cells, t)]
              /\ \A key \in DOMAIN prev.point_data :
                    mesh.point_data[key][At(mesh.cells, t)] = prev.point_data[key][At(prev.cells, t)]
              /\ At(mesh.cells, t) \in 0..(Len0(mesh.points.rows) - 1)
        /\ DOMAIN mesh.points.rows = 0..(Cardinality(Referenced(prev.cells)) - 1)
        /\ mesh.points.ncols = prev.points.ncols
        /\ \A v \in Referenced(prev.cells) :
              /\ mesh.points.rows[Rank(prev.cells, v)] = prev.points.rows[v]
              /\ \A key \in DOMAIN prev.point_data :
                    /\ DOMAIN mesh.point_data[key] = DOMAIN mesh.points.rows
                    /\ mesh.point_data[key][Rank(prev.cells, v)] = prev.point_data[key][v]
        /\ DOMAIN mesh.point_data = DOMAIN prev.point_data
        /\ \A i \in DOMAIN mesh.points.rows : i \in Referenced(mesh.cells)
        /\ mesh.cell_data = prev.cell_data

C4_Witness ==
    /\ stage = "reduce"
    /\ opts.prune_vertices
    /\ Len0(prev.cells) = 2
    /\ Len0(mesh.points.rows) = 2
    /\ Len0(prev.points.rows) = 3
    /\ At(prev.cells, <<0, 0, 0>>) = 2
    /\ At(prev.cells, <<0, 0, 1>>) = 0
    /\ At(mesh.cells, <<1, 0, 1>>) = 1

\* C5: applying the vertex-pruning stage to the result of the
\* vertex-pruning stage gives the same points, cell blocks and point data
\* as applying it once.
C5_PrunerIdempotent ==
    stage = "again" =>
        /\ mesh.points = prev.points
        /\ mesh.cells = prev.cells
        /\ mesh.point_data = prev.point_data

C5_Witness ==
    /\ stage = "again"
    /\ Len0(mesh.cells) = 2
    /\ Len0(mesh.points.rows) = 2
    /\ At(mesh.cells, <<0, 0, 0>>) = 1

\* The points of m without their third component.
WithoutZ(points) ==
    [ncols |-> 2,
     rows |-> [i \in DOMAIN points.rows |-> [c \in 0..1 |-> points.rows[i][c]]]]

\* C6: with prune_z_0 set and 3-component points, the third component is
\* dropped from all points if and only if every point has |z| < 1e-13 (10
\* in the units of the coordinates); one
\* point with |z| at or above the threshold keeps all points at 3
\* components.  With prune_z_0 unset, or points that do not have 3
\* components, the points are unchanged.  Cells and data are unchanged in
\* every case.
C6_ReducerBoundary ==
    stage = "done" =>
        /\ (opts.prune_z_0 /\ prev.points.ncols = 3) =>
              IF \A i \in DOMAIN prev.points.rows :
                    /\ prev.points.rows[i][2] < 10
                    /\ prev.points.rows[i][2] > 0 - 10
              THEN mesh.points = WithoutZ(prev.points)
              ELSE mesh.points = prev.points
        /\ (~opts.prune_z_0 \/ prev.points.ncols # 3) => mesh.points = prev.points
        /\ mesh.cells = prev.cells
        /\ mesh.point_data = prev.point_data
        /\ mesh.cell_data = prev.cell_data

C6_Witness ==
    /\ stage = "done"
    /\ opts.prune_z_0
    /\ prev.points.ncols = 3
    /\ mesh.points.ncols = 2
    /\ \E i \in DOMAIN prev.points.rows : prev.points.rows[i][2] = 0 - 9
    /\ \E i \in DOMAIN prev.points.rows : prev.points.rows[i][2] = 9

C6_WitnessAtThreshold ==
    /\ stage = "done"
    /\ opts.prune_z_0
    /\ mesh.points.ncols = 3
    /\ \A i \in DOMAIN mesh.points.rows : Abs(mesh.points.rows[i][2]) <= 10
    /\ \E i \in DOMAIN mesh.points.rows : mesh.points.rows[i][2] = 0 - 10

\* C9: whenever the cell-type filter or the vertex pruner leaves no cell
\* block or no point, the processing ends in an error: it never returns such
\* a mesh when one of the two stages was active.
C9_EmptyResultReported ==
    (stage = "done" /\ (opts.remove_lower_dim_cells \/ opts.prune_vertices)) =>
        /\ Len0(mesh.cells) > 0
        /\ Len0(mesh.points.rows) > 0

====
